---- MODULE Spec2Model ----
(***************************************************************************)
(* Shared-state coordination protocol of the multi-agent workflow:         *)
(* the JSON document communication.json, the advisory lock comm.lock,      *)
(* the AgentCommunication library (shared/agent_utils.py), the three agent *)
(* programs and the orchestrator run.py.                                   *)
(***************************************************************************)
EXTENDS Integers, Sequences, FiniteSets, TLC

\* ------------------------------------------------------------------ bounds
\* number of library calls issued by the concurrent clients of Spec
MaxCalls == 2
\* number of library calls issued one after another in SpecSerial
MaxSerialCalls == 3
\* largest value of the wall clock read by time.strftime
MaxTime == 1
\* largest max_attempts and initial_wait a caller of wait_with_backoff passes
MaxWaitAttempts == 5
MaxInitialWait == 2

\* wait_with_backoff's defaults
DefaultMaxAttempts == 5
DefaultInitialWait == 1

\* ------------------------------------------------------------- identifiers
PO == "product_owner"
SE == "staff_engineer"
EM == "engineering_manager"
Agents == {PO, SE, EM}

\* processes that use the library concurrently in Spec
Procs == {PO, SE}

\* Python's None, as passed for update_status(message=None)
None == "<None>"
\* the arguments the clients of Spec draw from
StatusArgs == {"working", "completed"}
MessageArgs == {None, "", "note"}
KeyArgs == {"q1"}
ContentArgs == {"hello", "bye"}

NoProc == "<free>"
EmptyMap == [x \in {} |-> x]
NoDoc == [nodoc |-> TRUE]
NoOp == [name |-> "none", a1 |-> None, a2 |-> None, a3 |-> None]

\* ------------------------------------------------------------ the document
Has(d, k) == k \in DOMAIN d
SetKey(f, k, v) == [y \in DOMAIN f \cup {k} |-> IF y = k THEN v ELSE f[y]]

\* run.py: the document the orchestrator creates
InitialData ==
  [task |-> "Implementar login con Google",
   workflow_state |-> "initialized",
   agents |-> [a \in Agents |-> [status |-> "pending"]],
   iterations |-> 0,
   max_iterations |-> 3]

\* json.dump / json.load: Python's True/False are written as the JSON literals
\* true/false; strings, numbers and objects with string keys keep their shape
EncBool(b) == IF b THEN "true" ELSE "false"
\* Python's bool() of the literal's text: every non-empty string is true
DecBoolOfText(s) == s # ""

DecBool(s) == s = "true"
EncMsg(m) == [m EXCEPT !["read"] = EncBool(m["read"])]
DecMsg(m) == [m EXCEPT !["read"] = DecBool(m["read"])]
EncInboxes(ms) == [r \in DOMAIN ms |-> [k \in DOMAIN ms[r] |-> EncMsg(ms[r][k])]]
DecInboxes(ms) == [r \in DOMAIN ms |-> [k \in DOMAIN ms[r] |-> DecMsg(ms[r][k])]]
Dump(d) == [k \in DOMAIN d |-> IF k = "messages" THEN EncInboxes(d[k]) ELSE d[k]]
Load(t) == [k \in DOMAIN t |-> IF k = "messages" THEN DecInboxes(t[k]) ELSE t[k]]

\* a test for None only, which takes the empty string for a message
TruthyNotNone(m) == m # None

\* `if message:` is false for None and for the empty string
Truthy(m) == m \notin {None, ""}

\* an update that rebuilds the agents table around the caller's record
UpdateStatusClobber(d, a, status, message, ts) ==
  SetKey(d, "agents",
         [x \in DOMAIN d["agents"] |->
            IF x = a THEN [status |-> status, last_update |-> ts]
            ELSE [status |-> "pending"]])

\* an update that replaces the agents table by the caller's record alone
UpdateStatusOnlySelf(d, a, status, message, ts) ==
  SetKey(d, "agents", [x \in {a} |-> [status |-> status, last_update |-> ts]])

\* update_status, lines 48-54: the in-memory mutation
UpdateStatusData(d, a, status, message, ts) ==
  LET r0 == SetKey(d["agents"][a], "status", status)
      r1 == IF Truthy(message) THEN SetKey(r0, "message", message) ELSE r0
      r2 == SetKey(r1, "last_update", ts)
  IN  SetKey(d, "agents", [d["agents"] EXCEPT ![a] = r2])

\* send_message_to_agent, lines 77-90: the in-memory mutation
NewMessage(from, content, ts) ==
  [content |-> content, from |-> from, timestamp |-> ts, read |-> FALSE]

SendMessageData(d, from, target, key, content, ts) ==
  LET ms0 == IF Has(d, "messages") THEN d["messages"] ELSE EmptyMap
      ms1 == IF target \in DOMAIN ms0 THEN ms0 ELSE SetKey(ms0, target, EmptyMap)
      box == SetKey(ms1[target], key, NewMessage(from, content, ts))
  IN  SetKey(d, "messages", SetKey(ms1, target, box))

\* get_messages, line 98: the early return
NoInbox(d, a) == ~Has(d, "messages") \/ a \notin DOMAIN d["messages"]

\* a marking that flips the flag instead of setting it
MarkAllReadFlip(d, a) ==
  LET box == d["messages"][a]
      marked == [k \in DOMAIN box |-> [box[k] EXCEPT !["read"] = ~box[k]["read"]]]
  IN  SetKey(d, "messages", [d["messages"] EXCEPT ![a] = marked])

\* get_messages, lines 103-106: every message of the inbox marked read
MarkAllRead(d, a) ==
  LET box == d["messages"][a]
      marked == [k \in DOMAIN box |-> [box[k] EXCEPT !["read"] = TRUE]]
  IN  SetKey(d, "messages", [d["messages"] EXCEPT ![a] = marked])

\* get_messages, line 103: `mark_as_read and messages`
WillMark(d, a, mark) == mark /\ DOMAIN d["messages"][a] # {}

\* get_messages, lines 101-109: `messages` refers to the inbox object inside
\* `data`, so the returned value shows the flags as they were just set
ReturnedMessages(d, a, mark) ==
  IF WillMark(d, a, mark) THEN MarkAllRead(d, a)["messages"][a]
  ELSE d["messages"][a]

\* increment_iteration, line 115
IncrementData(d) == [d EXCEPT !["iterations"] = d["iterations"] + 1]

\* the keys an agent stores its result under
PayloadKey(a) ==
  CASE a = PO -> "product_owner_analysis"
    [] a = SE -> "staff_engineer_analysis"
    [] OTHER -> "engineering_manager_coordination"
ReasoningKey(a) ==
  CASE a = PO -> "product_owner_reasoning"
    [] a = SE -> "staff_engineer_reasoning"
    [] OTHER -> "engineering_manager_reasoning"

\* an agent's payload write, between its read_json and its write_json:
\* product_owner.py 169-181, staff_engineer.py 271-281,
\* engineering_manager.py 349-362
PayloadData(d, a, analysis, api_used) ==
  LET d1 == SetKey(d, PayloadKey(a), analysis)
      d2 == SetKey(d1, ReasoningKey(a),
                   [approach |-> IF api_used THEN "AI-driven" ELSE "Fallback"])
  IN  IF a = EM THEN SetKey(d2, "workflow_state", "ready_for_implementation") ELSE d2

\* --------------------------------------------------------------- the state
VARIABLES
  file,     \* communication.json: [state: "full" | "torn", text: the JSON text]
  lock,     \* the process holding flock(LOCK_EX) on comm.lock, or NoProc
  now,      \* the wall clock
  pc,       \* per process: its position inside read_json / write_json
  op,       \* per process: the library call in progress
  data,     \* per process: the local `data` dictionary
  inbox,    \* per process: the value returned by its last get_messages
  err,      \* per process: the exception raised by its last call, or None
  calls,    \* number of calls issued so far by the clients of Spec
  ver,      \* history: number of completed write_json calls
  rver,     \* history: per process, ver at its last read_json
  snap,     \* history: per process, the document its last read_json returned
  lastw,    \* history: the last completed write_json
  wt,       \* per process: the frame of its wait_with_backoff call
  orch,     \* run.py: index of the script the loop of main is at
  apc,      \* per agent process: its position in the agent script
  loc,      \* per agent process: the locals of run()
  parsed,   \* the calls made so far to the reply-consuming methods, with results
  projects, \* poc4: projects/<name>.json for every project name, or NoFile
  current_project, \* poc4: project_manager.current_project
  console,  \* poc4, poc3: the last input typed and what was shown for it
  shared_context   \* poc3: components/consciousness/memory/shared_context_memory.json

vars == <<file, lock, now, pc, op, data, inbox, err, calls, ver, rver, snap, lastw,
          wt, orch, apc, loc, parsed, projects, current_project, console,
          shared_context>>

\* the variables of the other programs of the repository
othervars == <<parsed, projects, current_project, console, shared_context>>

\* the variables of the agent scripts and of run.py
runvars == <<orch, apc, loc>>

\* ------------------------------------------------------ wait_with_backoff
\* random.uniform(0.8, 1.2), in tenths; sleep times are in tenths of a second
JitterTenths == {8, 10, 12}

NoWait == [at |-> "none", max_attempts |-> 0, initial_wait |-> 0, wait_time |-> 0,
           attempts |-> 0, evals |-> 0, sleeps |-> <<>>]

\* lines 122-123: the frame at entry
WaitEntry(max_attempts, initial_wait) ==
  [at |-> "loop", max_attempts |-> max_attempts, initial_wait |-> initial_wait,
   wait_time |-> initial_wait, attempts |-> 0, evals |-> 0, sleeps |-> <<>>]

\* a loop test that admits one attempt too many
WaitTestInclusive(w) == w.attempts <= w.max_attempts

\* line 125: while attempts < max_attempts
WaitTest(w) == w.attempts < w.max_attempts

\* a backoff that keeps the delay instead of doubling it
WaitFailedFlat(w, jitter) ==
  [w EXCEPT !.at = "loop", !.evals = @ + 1,
            !.sleeps = Append(@, w.wait_time * jitter),
            !.attempts = @ + 1]

\* a wait that returns straight after the last failed attempt, without the
\* sleep
WaitFailedNoLastSleep(w, jitter) ==
  [w EXCEPT !.at = "loop", !.evals = @ + 1,
            !.sleeps = IF w.attempts + 1 < w.max_attempts
                       THEN Append(@, w.wait_time * jitter) ELSE @,
            !.wait_time = @ * 2,
            !.attempts = @ + 1]

\* lines 126-137: the condition was false: sleep wait_time * jitter, double
\* the delay, count the attempt
WaitFailed(w, jitter) ==
  [w EXCEPT !.at = "loop", !.evals = @ + 1,
            !.sleeps = Append(@, w.wait_time * jitter),
            !.wait_time = @ * 2,
            !.attempts = @ + 1]

\* lines 126-127: the condition was true: return True
WaitSucceeded(w) == [w EXCEPT !.at = "returned_true", !.evals = @ + 1]

\* line 139: return False
WaitExhausted(w) == [w EXCEPT !.at = "returned_false"]

NoWrite == [by |-> NoProc, stale |-> FALSE, before |-> NoDoc, after |-> NoDoc,
            read |-> NoDoc, op |-> NoOp]

\* the model's reply as the agent's code sees it: which of the fields the
\* code subscripts are present
NoReply == [src |-> "none", f1 |-> FALSE, f2 |-> FALSE, f3 |-> FALSE,
            late |-> FALSE, conflicts |-> FALSE]
NoLocals == [analysis |-> NoReply, api_used |-> FALSE, exc |-> None]

\* a file that does not exist
NoFile == [nofile |-> TRUE]

\* poc4: the names given to /project and /project-new
ProjectNames == {"alpha", "beta"}

\* nothing of the other programs has run: no method was called, the projects
\* directory is empty, nothing is selected, the memory file does not exist
InitOther ==
  /\ parsed = <<>>
  /\ projects = [n \in ProjectNames |-> NoFile]
  /\ current_project = None
  /\ console = [cmd |-> None, arg |-> None, out |-> None]
  /\ shared_context = NoFile

\* run.py, lines 44-62: communication.json and comm.lock are created
InitLib ==
  /\ file = [state |-> "full", text |-> Dump(InitialData)]
  /\ lock = NoProc
  /\ now = 0
  /\ pc = [p \in Agents |-> "idle"]
  /\ op = [p \in Agents |-> NoOp]
  /\ data = [p \in Agents |-> NoDoc]
  /\ inbox = [p \in Agents |-> EmptyMap]
  /\ err = [p \in Agents |-> None]
  /\ calls = 0
  /\ ver = 0
  /\ rver = [p \in Agents |-> 0]
  /\ snap = [p \in Agents |-> NoDoc]
  /\ lastw = NoWrite

InitRun ==
  /\ orch = 1
  /\ apc = [p \in Agents |-> "none"]
  /\ loc = [p \in Agents |-> NoLocals]

Init ==
  /\ InitLib
  /\ wt = [p \in Agents |-> NoWait]
  /\ InitRun
  /\ InitOther

\* ------------------------------------------------- read_json and write_json
\* a lock request that never blocks (the call left out, or a shared lock)
FlockNotExclusive(p) == TRUE

\* fcntl.flock(lock_file, fcntl.LOCK_EX) blocks until no other process holds it
FlockEx(p) == lock = NoProc

\* time.strftime: the clock never runs backwards; the calls that read it
\* see the time of the previous reading or a later one
UsesClock(o) == o.name \in {"update_status", "send_message_to_agent"}
Times(o) == IF UsesClock(o) THEN now..MaxTime ELSE {now}

\* the in-memory work a call does between its read_json and its write_json
Mutated(p, d, ts) ==
  CASE op[p].name = "update_status" ->
         UpdateStatusData(d, p, op[p].a1, op[p].a2, ts)
    [] op[p].name = "send_message_to_agent" ->
         SendMessageData(d, p, op[p].a1, op[p].a2, op[p].a3, ts)
    [] op[p].name = "get_messages" ->
         IF ~NoInbox(d, p) /\ WillMark(d, p, op[p].a1) THEN MarkAllRead(d, p) ELSE d
    [] op[p].name = "increment_iteration" -> IncrementData(d)
    [] op[p].name = "put_payload" ->
         PayloadData(d, p, loc[p].analysis, loc[p].api_used)
    [] OTHER -> d

\* a get_messages that marks its own copy only and never writes it back
WritesButFetch(p, d) == op[p].name \notin {"read_json", "get_messages"}

\* whether the call goes on to write_json after its read_json
Writes(p, d) ==
  CASE op[p].name = "read_json" -> FALSE
    [] op[p].name = "get_messages" -> ~NoInbox(d, p) /\ WillMark(d, p, op[p].a1)
    [] OTHER -> TRUE

\* a release placed after the body instead of in a finally clause: skipped
\* when the body raised
FlockUnUnlessRaised(p, raised) == IF raised THEN lock ELSE NoProc

\* lines 27-29 and 39-41: `finally: fcntl.flock(lock_file, fcntl.LOCK_UN)`,
\* run whether the body returned or raised
FlockUn(p, raised) == NoProc

\* read_json, lines 20-22: open comm.lock and take the exclusive lock
ReadLock(p) ==
  /\ pc[p] = "r_lock"
  /\ FlockEx(p)
  /\ lock' = p
  /\ pc' = [pc EXCEPT ![p] = "r_load"]
  /\ UNCHANGED <<file, now, op, data, inbox, err, calls, ver, rver, snap, lastw, wt, runvars, othervars>>

\* read_json, lines 24-29: json.load, release the lock, and the caller's
\* in-memory work on the returned dictionary
ReadLoad(p) ==
  /\ pc[p] = "r_load"
  /\ lock' = FlockUn(p, file.state # "full")
  /\ IF file.state = "full"
     THEN LET d == Load(file.text) IN
          /\ snap' = [snap EXCEPT ![p] = d]
          /\ rver' = [rver EXCEPT ![p] = ver]
          /\ \E ts \in Times(op[p]) :
               /\ now' = ts
               /\ data' = [data EXCEPT ![p] = Mutated(p, d, ts)]
          /\ inbox' = IF op[p].name = "get_messages"
                      THEN [inbox EXCEPT ![p] =
                              IF NoInbox(d, p) THEN EmptyMap
                              ELSE ReturnedMessages(d, p, op[p].a1)]
                      ELSE inbox
          /\ pc' = [pc EXCEPT ![p] = IF Writes(p, d) THEN "w_lock" ELSE "idle"]
          /\ err' = [err EXCEPT ![p] = None]
     ELSE /\ err' = [err EXCEPT ![p] = "JSONDecodeError"]
          /\ pc' = [pc EXCEPT ![p] = "idle"]
          /\ UNCHANGED <<snap, rver, data, inbox, now>>
  /\ UNCHANGED <<file, op, calls, ver, lastw, wt, runvars, othervars>>

\* write_json, lines 33-35
WriteLock(p) ==
  /\ pc[p] = "w_lock"
  /\ FlockEx(p)
  /\ lock' = p
  /\ pc' = [pc EXCEPT ![p] = "w_open"]
  /\ UNCHANGED <<file, now, op, data, inbox, err, calls, ver, rver, snap, lastw, wt, runvars, othervars>>

\* write_json, line 37: open(json_path, 'w') truncates the file
WriteOpen(p) ==
  /\ pc[p] = "w_open"
  /\ file' = [state |-> "torn", text |-> EmptyMap]
  /\ pc' = [pc EXCEPT ![p] = "w_dump"]
  /\ UNCHANGED <<lock, now, op, data, inbox, err, calls, ver, rver, snap, lastw, wt, runvars, othervars>>

\* the document of the last completed write_json (run.py's at the start)
Committed == IF lastw.by = NoProc THEN InitialData ELSE lastw.after

\* a write_json that checks a version stamp and keeps the file when the
\* caller's copy is stale
WrittenIfFresh(p) == IF rver[p] < ver THEN Dump(Committed) ELSE Dump(data[p])

\* what write_json puts into the file
Written(p) == Dump(data[p])

\* write_json, lines 38-41: json.dump, close, release the lock
WriteDump(p) ==
  /\ pc[p] = "w_dump"
  /\ file' = [state |-> "full", text |-> Written(p)]
  /\ lock' = FlockUn(p, FALSE)
  /\ pc' = [pc EXCEPT ![p] = "idle"]
  /\ ver' = ver + 1
  /\ lastw' = [by |-> p, stale |-> rver[p] < ver,
               before |-> IF lastw.by = NoProc THEN InitialData ELSE lastw.after,
               after |-> data[p], read |-> snap[p], op |-> op[p]]
  /\ UNCHANGED <<now, op, data, inbox, err, calls, rver, snap, wt, runvars, othervars>>

\* ------------------------------------------------ the clients of Spec
\* a client process calls one method of AgentCommunication; `max` bounds
\* the number of calls of the run
Issue(p, o, max) ==
  /\ p \in Procs
  /\ pc[p] = "idle"
  /\ calls < max
  /\ calls' = calls + 1
  /\ op' = [op EXCEPT ![p] = o]
  /\ pc' = [pc EXCEPT ![p] = "r_lock"]
  /\ UNCHANGED <<file, lock, now, data, inbox, err, ver, rver, snap, lastw, wt, runvars, othervars>>

CallReadJson(p, max) ==
  Issue(p, [name |-> "read_json", a1 |-> None, a2 |-> None, a3 |-> None], max)

CallUpdateStatus(p, status, message, max) ==
  Issue(p, [name |-> "update_status", a1 |-> status, a2 |-> message, a3 |-> None], max)

CallSendMessage(p, target, key, content, max) ==
  Issue(p, [name |-> "send_message_to_agent", a1 |-> target, a2 |-> key,
            a3 |-> content], max)

CallGetMessages(p, mark, max) ==
  Issue(p, [name |-> "get_messages", a1 |-> mark, a2 |-> None, a3 |-> None], max)

CallIncrementIteration(p, max) ==
  Issue(p, [name |-> "increment_iteration", a1 |-> None, a2 |-> None, a3 |-> None], max)

Library ==
  \/ \E p \in Procs : ReadLock(p)
  \/ \E p \in Procs : ReadLoad(p)
  \/ \E p \in Procs : WriteLock(p)
  \/ \E p \in Procs : WriteOpen(p)
  \/ \E p \in Procs : WriteDump(p)

\* the processes call the library concurrently
Next ==
  \/ Library
  \/ \E p \in Procs : CallReadJson(p, MaxCalls)
  \/ \E p \in Procs, s \in StatusArgs, m \in MessageArgs :
       CallUpdateStatus(p, s, m, MaxCalls)
  \/ \E p \in Procs, t \in Procs, k \in KeyArgs, c \in ContentArgs :
       CallSendMessage(p, t, k, c, MaxCalls)
  \/ \E p \in Procs, mark \in BOOLEAN : CallGetMessages(p, mark, MaxCalls)
  \/ \E p \in Procs : CallIncrementIteration(p, MaxCalls)

Spec == Init /\ [][Next]_vars

\* the process is killed, or its call raises, inside read_json or write_json:
\* the `with` block or the end of the process closes comm.lock, which drops
\* the lock; the file stays as the call left it
Kill(p) ==
  /\ pc[p] \notin {"idle", "dead"}
  /\ pc' = [pc EXCEPT ![p] = "dead"]
  /\ lock' = IF lock = p THEN NoProc ELSE lock
  /\ UNCHANGED <<file, now, op, data, inbox, err, calls, ver, rver, snap, lastw, wt, runvars, othervars>>

\* the clients of Spec, any of which may die in the middle of a call
NextCrash ==
  \/ Next
  \/ \E p \in Procs : Kill(p)

SpecCrash == Init /\ [][NextCrash]_vars

\* a live process inside a call is scheduled again: each step of its call
\* is taken if it stays possible, and flock grants a free lock to a waiter
CallStepOf(p) ==
  ReadLock(p) \/ ReadLoad(p) \/ WriteLock(p) \/ WriteOpen(p) \/ WriteDump(p)

\* the processes call read_json and update_status (a read_json followed by
\* a write_json) concurrently, and any of them may die in the middle
NextLock ==
  \/ \E p \in Procs : CallStepOf(p)
  \/ \E p \in Procs : CallReadJson(p, MaxCalls)
  \/ \E p \in Procs : CallUpdateStatus(p, "working", None, MaxCalls)
  \/ \E p \in Procs : Kill(p)

SpecLock == Init /\ [][NextLock]_vars /\ \A p \in Procs : WF_vars(CallStepOf(p))

\* the document after product_owner's send_message_to_agent(staff_engineer,
\* "q1", "hello") on the document of run.py
InboxData == SendMessageData(InitialData, PO, SE, "q1", "hello", 0)

\* the clients of Spec start with a message waiting in staff_engineer's inbox
InitInbox ==
  /\ file = [state |-> "full", text |-> Dump(InboxData)]
  /\ lock = NoProc
  /\ now = 0
  /\ pc = [p \in Agents |-> "idle"]
  /\ op = [p \in Agents |->
            IF p = PO THEN [name |-> "send_message_to_agent", a1 |-> SE, a2 |-> "q1",
                            a3 |-> "hello"]
            ELSE NoOp]
  /\ data = [p \in Agents |-> IF p = PO THEN InboxData ELSE NoDoc]
  /\ inbox = [p \in Agents |-> EmptyMap]
  /\ err = [p \in Agents |-> None]
  /\ calls = 0
  /\ ver = 1
  /\ rver = [p \in Agents |-> 0]
  /\ snap = [p \in Agents |-> IF p = PO THEN InitialData ELSE NoDoc]
  /\ lastw = [by |-> PO, stale |-> FALSE, before |-> InitialData, after |-> InboxData,
              read |-> InitialData, op |-> op[PO]]
  /\ wt = [p \in Agents |-> NoWait]
  /\ InitRun
  /\ InitOther

SpecInbox == InitInbox /\ [][Next]_vars

\* no call is in progress
Quiet == \A q \in Procs : pc[q] = "idle"

\* the processes send and fetch messages, one call after another
NextSerial ==
  \/ Library
  \/ \E p \in Procs, t \in Procs, k \in KeyArgs, c \in ContentArgs :
       Quiet /\ CallSendMessage(p, t, k, c, MaxSerialCalls)
  \/ \E p \in Procs, mark \in BOOLEAN : Quiet /\ CallGetMessages(p, mark, MaxSerialCalls)

SpecSerial == Init /\ [][NextSerial]_vars

\* ------------------------------------- wait_with_backoff with any condition
libstate == <<file, lock, now, pc, op, data, inbox, err, calls, ver, rver, snap, lastw, runvars,
              othervars>>

\* the process that waits in SpecWait
Waiter == SE

\* the waiter has called wait_with_backoff(condition, n, t)
InitWait ==
  /\ InitLib
  /\ InitRun
  /\ InitOther
  /\ \E n \in 0..MaxWaitAttempts, t \in 1..MaxInitialWait :
       wt = [p \in Agents |-> IF p = Waiter THEN WaitEntry(n, t) ELSE NoWait]

\* line 125: the loop test; line 139 when the attempts are used up
WaitLoop(p) ==
  /\ wt[p].at = "loop"
  /\ wt' = [wt EXCEPT ![p] = IF WaitTest(wt[p]) THEN [wt[p] EXCEPT !.at = "eval"]
                              ELSE WaitExhausted(wt[p])]
  /\ UNCHANGED libstate

\* line 126: condition_func() returns True
WaitEvalTrue(p) ==
  /\ wt[p].at = "eval"
  /\ wt' = [wt EXCEPT ![p] = WaitSucceeded(wt[p])]
  /\ UNCHANGED libstate

\* lines 126-137: condition_func() returns False
WaitEvalFalse(p) ==
  /\ wt[p].at = "eval"
  /\ \E j \in JitterTenths : wt' = [wt EXCEPT ![p] = WaitFailed(wt[p], j)]
  /\ UNCHANGED libstate

\* wait_for_po_analysis, lines 42-43: `if not wait_with_backoff(...): raise`
WaitCallerRaises(p) ==
  /\ wt[p].at = "returned_false"
  /\ wt' = [wt EXCEPT ![p].at = "TimeoutError"]
  /\ UNCHANGED libstate

\* wait_for_po_analysis, line 45: the wait succeeded, the caller goes on
WaitCallerProceeds(p) ==
  /\ wt[p].at = "returned_true"
  /\ wt' = [wt EXCEPT ![p].at = "proceeded"]
  /\ UNCHANGED libstate

NextWait ==
  \/ WaitLoop(Waiter)
  \/ WaitEvalTrue(Waiter)
  \/ WaitEvalFalse(Waiter)
  \/ WaitCallerRaises(Waiter)
  \/ WaitCallerProceeds(Waiter)

SpecWait == InitWait /\ [][NextWait]_vars

\* ------------------------------------------------- the three-agent workflow
\* a list with the first two scripts exchanged
ScriptSwapped(i) == CASE i = 1 -> SE [] i = 2 -> PO [] OTHER -> EM

\* run.py, lines 67-71: the scripts in the order they are run
Script(i) == CASE i = 1 -> PO [] i = 2 -> SE [] OTHER -> EM

\* a loop that stops at the first script that fails
AfterAgentAbort(i, exit) == IF exit = "exit1" THEN 4 ELSE i + 1

\* run.py, lines 79-85: the exception of a failed script is caught and printed
\* and the loop goes on with the next script
AfterAgent(i, exit) == i + 1

Fallback == [src |-> "fallback", f1 |-> TRUE, f2 |-> TRUE, f3 |-> TRUE,
             late |-> TRUE, conflicts |-> FALSE]

\* the replies of the model that parse as JSON, by the fields the agent's code
\* subscripts: f1, f2, f3 are used before the agent's `completed` write,
\* `late` only by the prints after it
\*   product_owner:  f1 questions; late assumptions, specifications,
\*                   business_context
\*   staff_engineer: f1 technical_questions; f2 implementation_phases;
\*                   late architecture.components, complexity_analysis
\*   engineering_manager: f1 coordination.conflicts_identified/resolutions;
\*                   f2 claude_code_prompts; f3 execution_plan;
\*                   late priority_assessment; conflicts: a conflict is listed
JsonReplies(a) ==
  CASE a = PO -> {[src |-> "llm", f1 |-> x, f2 |-> TRUE, f3 |-> TRUE, late |-> l,
                   conflicts |-> FALSE] : x \in BOOLEAN, l \in BOOLEAN}
    [] a = SE -> {[src |-> "llm", f1 |-> x, f2 |-> y, f3 |-> TRUE, late |-> l,
                   conflicts |-> FALSE] : x \in BOOLEAN, y \in BOOLEAN, l \in BOOLEAN}
    [] OTHER -> {[src |-> "llm", f1 |-> x, f2 |-> y, f3 |-> z, late |-> l,
                  conflicts |-> c] :
                   x \in BOOLEAN, y \in BOOLEAN, z \in BOOLEAN, l \in BOOLEAN,
                   c \in BOOLEAN}

\* the notes the agents pass to update_status
WorkingNote(a) ==
  CASE a = PO -> "Interrogating client and analyzing requirements"
    [] a = SE -> "Questioning specifications and defining architecture"
    [] OTHER -> "Coordinating agents and generating implementation prompts"
CompletedNote(a) ==
  CASE a = PO -> "Client interrogation and analysis completed"
    [] a = SE -> "Technical architecture and analysis completed"
    [] OTHER -> "Coordination completed, Claude Code prompts generated"
TimeoutText(a) ==
  IF a = SE THEN "Timeout waiting for Product Owner analysis"
  ELSE "Timeout waiting for agent analyses"

\* a condition that compares with what the evaluation before it saw, and so is
\* false the first time
ReadyOnRetry(a, d) ==
  /\ wt[a].evals > 0
  /\ \A u \in (IF a = SE THEN {PO} ELSE {PO, SE}) :
       d["agents"][u]["status"] = "completed" /\ Has(d, PayloadKey(u))

\* a condition that looks at the upstream statuses only
ReadyStatusOnly(a, d) == \A u \in (IF a = SE THEN {PO} ELSE {PO, SE}) :
  d["agents"][u]["status"] = "completed"

\* a condition that looks for the upstream payloads only, whatever the
\* upstream statuses are
ReadyPayloadOnly(a, d) ==
  IF a = SE THEN Has(d, "product_owner_analysis")
  ELSE Has(d, "product_owner_analysis") /\ Has(d, "staff_engineer_analysis")

\* analysis_ready (staff_engineer.py 34-38) and analyses_ready
\* (engineering_manager.py 36-43)
Ready(a, d) ==
  IF a = SE
  THEN d["agents"][PO]["status"] = "completed" /\ Has(d, "product_owner_analysis")
  ELSE /\ d["agents"][PO]["status"] = "completed"
       /\ d["agents"][SE]["status"] = "completed"
       /\ Has(d, "product_owner_analysis")
       /\ Has(d, "staff_engineer_analysis")

CallOp(name, x, y, z) == [name |-> name, a1 |-> x, a2 |-> y, a3 |-> z]

\* the agent's script is at `from` with no library call in progress; it calls
\* the library method `o` and goes to `to`
CallStep(a, from, o, to) ==
  /\ apc[a] = from
  /\ pc[a] = "idle"
  /\ op' = [op EXCEPT ![a] = o]
  /\ pc' = [pc EXCEPT ![a] = "r_lock"]
  /\ apc' = [apc EXCEPT ![a] = to]
  /\ UNCHANGED <<file, lock, now, data, inbox, err, calls, ver, rver, snap, lastw,
                 wt, orch, loc, othervars>>

\* a step of the script that calls nothing
LocalStep(a, from, to) ==
  /\ apc[a] = from
  /\ pc[a] = "idle"
  /\ apc' = [apc EXCEPT ![a] = to]
  /\ UNCHANGED <<file, lock, now, pc, op, data, inbox, err, calls, ver, rver, snap,
                 lastw, wt, orch, othervars>>

\* an exception leaves run(): product_owner.py has no handler, the other two
\* scripts go to `except Exception as e` (staff_engineer.py 327,
\* engineering_manager.py 390)
Raise(a, from, text) ==
  /\ LocalStep(a, from, IF a = PO THEN "exit1" ELSE "handler")
  /\ loc' = [loc EXCEPT ![a].exc = text]

\* run.py, lines 79-81 and 22-27: the next script is started and waited for
Launch ==
  /\ orch \in 1..3
  /\ apc[Script(orch)] = "none"
  /\ apc' = [apc EXCEPT ![Script(orch)] = "ctor"]
  /\ UNCHANGED <<file, lock, now, pc, op, data, inbox, err, calls, ver, rver, snap,
                 lastw, wt, orch, loc, othervars>>

\* run.py, lines 82-85: the script has ended
Reap ==
  /\ orch \in 1..3
  /\ apc[Script(orch)] \in {"exit0", "exit1"}
  /\ orch' = AfterAgent(orch, apc[Script(orch)])
  /\ UNCHANGED <<file, lock, now, pc, op, data, inbox, err, calls, ver, rver, snap,
                 lastw, wt, apc, loc, othervars>>

\* run.py, lines 87-96: the lock file is removed, the document is read with
\* json.load and printed (5); json.load of a file that holds no complete
\* document raises JSONDecodeError and nothing is printed (6)
Finish ==
  /\ orch = 4
  /\ orch' = IF file.state = "full" THEN 5 ELSE 6
  /\ UNCHANGED <<file, lock, now, pc, op, data, inbox, err, calls, ver, rver, snap,
                 lastw, wt, apc, loc, othervars>>

\* a constructor that leaves the credential check to the first use
AfterConstructLate(a, key) == IF a = PO THEN "read_task" ELSE "set_initializing"

\* __init__, line 20, and load_dotenv, lines 25-27: where the script goes
\* after the constructor, with and without ANTHROPIC_API_KEY
AfterConstruct(a, key) ==
  IF ~key THEN "exit1"
  ELSE IF a = PO THEN "read_task" ELSE "set_initializing"

\* __init__ and load_dotenv: without ANTHROPIC_API_KEY the constructor raises
\* and the script ends before run()
ConstructWith(a, keys) ==
  \E key \in keys :
    /\ LocalStep(a, "ctor", AfterConstruct(a, key))
    /\ loc' = [loc EXCEPT ![a].exc = IF key THEN None ELSE "ValueError"]

Construct(a) == ConstructWith(a, BOOLEAN)

\* product_owner.py, line 145
ReadTask(a) ==
  a = PO /\ CallStep(a, "read_task", CallOp("read_json", None, None, None),
                     "set_initializing")

\* product_owner.py 149, staff_engineer.py 227, engineering_manager.py 263
SetInitializing(a) ==
  CallStep(a, "set_initializing", CallOp("update_status", "initializing", None, None),
           IF a = PO THEN "set_working" ELSE "wait")

\* wait_for_po_analysis / wait_for_analyses call wait_with_backoff with its
\* default arguments
WaitStart(a) ==
  /\ a # PO
  /\ apc[a] = "wait"
  /\ pc[a] = "idle"
  /\ wt' = [wt EXCEPT ![a] = WaitEntry(DefaultMaxAttempts, DefaultInitialWait)]
  /\ apc' = [apc EXCEPT ![a] = "polling"]
  /\ UNCHANGED <<file, lock, now, pc, op, data, inbox, err, calls, ver, rver, snap,
                 lastw, orch, loc, othervars>>

\* wait_with_backoff, line 125 and 139; line 126 starts the condition's
\* read_json
PollLoop(a) ==
  /\ apc[a] = "polling"
  /\ wt[a].at = "loop"
  /\ pc[a] = "idle"
  /\ IF WaitTest(wt[a])
     THEN /\ wt' = [wt EXCEPT ![a].at = "eval"]
          /\ op' = [op EXCEPT ![a] = CallOp("read_json", None, None, None)]
          /\ pc' = [pc EXCEPT ![a] = "r_lock"]
     ELSE /\ wt' = [wt EXCEPT ![a] = WaitExhausted(wt[a])]
          /\ UNCHANGED <<op, pc>>
  /\ UNCHANGED <<file, lock, now, data, inbox, err, calls, ver, rver, snap, lastw,
                 orch, apc, loc, othervars>>

\* wait_with_backoff, lines 126-137, with the condition of the agent
PollEvalWith(a, jitters) ==
  /\ apc[a] = "polling"
  /\ wt[a].at = "eval"
  /\ pc[a] = "idle"
  /\ IF Ready(a, data[a])
     THEN wt' = [wt EXCEPT ![a] = WaitSucceeded(wt[a])]
     ELSE \E j \in jitters : wt' = [wt EXCEPT ![a] = WaitFailed(wt[a], j)]
  /\ UNCHANGED <<file, lock, now, pc, op, data, inbox, err, calls, ver, rver, snap,
                 lastw, orch, apc, loc, othervars>>

PollEval(a) == PollEvalWith(a, JitterTenths)

\* staff_engineer.py 42-43, engineering_manager.py 47-48: False becomes
\* TimeoutError
PollReturn(a) ==
  /\ apc[a] = "polling"
  /\ wt[a].at \in {"returned_true", "returned_false"}
  /\ wt' = [wt EXCEPT ![a] = NoWait]
  /\ IF wt[a].at = "returned_true"
     THEN /\ apc' = [apc EXCEPT ![a] = "fetch_after_wait"]
          /\ UNCHANGED loc
     ELSE /\ apc' = [apc EXCEPT ![a] = "handler"]
          /\ loc' = [loc EXCEPT ![a].exc = TimeoutText(a)]
  /\ UNCHANGED <<file, lock, now, pc, op, data, inbox, err, calls, ver, rver, snap,
                 lastw, orch, othervars>>

\* staff_engineer.py 46, engineering_manager.py 51
FetchAfterWait(a) ==
  CallStep(a, "fetch_after_wait", CallOp("get_messages", TRUE, None, None), "read_inputs")

\* staff_engineer.py 234, engineering_manager.py 270
ReadInputs(a) ==
  CallStep(a, "read_inputs", CallOp("read_json", None, None, None), "set_working")

\* product_owner.py 35, staff_engineer.py 55, engineering_manager.py 60
SetWorking(a) ==
  CallStep(a, "set_working", CallOp("update_status", "working", WorkingNote(a), None),
           "fetch_messages")

\* product_owner.py 38, staff_engineer.py 58, engineering_manager.py 63
FetchMessages(a) ==
  CallStep(a, "fetch_messages", CallOp("get_messages", TRUE, None, None), "ask_model")

\* the call of the model and the parse of its reply: an exception of the call
\* is caught in run() (api_used False), text that is no JSON is replaced inside
\* the method, JSON is returned as it is
ModelOutcomes(a) ==
  {[analysis |-> Fallback, api_used |-> FALSE], [analysis |-> Fallback, api_used |-> TRUE]}
    \cup {[analysis |-> r, api_used |-> TRUE] : r \in JsonReplies(a)}

AskModelWith(a, outcomes) ==
  /\ LocalStep(a, "ask_model", IF a = EM THEN "notify" ELSE "store")
  /\ \E o \in outcomes :
       loc' = [loc EXCEPT ![a].analysis = o.analysis, ![a].api_used = o.api_used]

AskModel(a) == AskModelWith(a, ModelOutcomes(a))

\* product_owner.py 168-184, staff_engineer.py 270-284,
\* engineering_manager.py 348-365
Store(a) ==
  CallStep(a, "store", CallOp("put_payload", None, None, None),
           IF a = EM THEN "set_completed" ELSE "notify")

\* the first message: product_owner.py 187-192, staff_engineer.py 287-292,
\* engineering_manager.py 317-339
Notify(a) ==
  LET r == loc[a].analysis
      needed == IF a = EM /\ r.f1 /\ ~r.conflicts THEN r.f1 /\ r.f2 ELSE r.f1
      missing == CASE a = PO -> "'questions'"
                   [] a = SE -> "'technical_questions'"
                   [] OTHER -> IF r.f1 THEN "'claude_code_prompts'" ELSE "'coordination'"
      target == IF a = PO THEN SE ELSE PO
      key == CASE a = PO -> "client_interrogation"
               [] a = SE -> "technical_questions"
               [] OTHER -> IF r.conflicts THEN "coordination_feedback"
                           ELSE "implementation_ready"
  IN  IF needed
      THEN CallStep(a, "notify", CallOp("send_message_to_agent", target, key, "text"),
                    IF a = PO THEN "set_completed" ELSE "notify2")
      ELSE Raise(a, "notify", missing)

\* the second message: staff_engineer.py 294-298,
\* engineering_manager.py 328-345
Notify2(a) ==
  LET r == loc[a].analysis
      needed == IF a = SE THEN r.f2 ELSE r.conflicts \/ r.f3
      missing == IF a = SE THEN "'implementation_phases'" ELSE "'execution_plan'"
      target == IF a = SE THEN EM ELSE SE
      key == CASE a = SE -> "architecture_ready"
               [] OTHER -> IF r.conflicts THEN "coordination_feedback"
                           ELSE "implementation_ready"
  IN  /\ a # PO
      /\ IF needed
         THEN CallStep(a, "notify2", CallOp("send_message_to_agent", target, key, "text"),
                       IF a = EM THEN "store" ELSE "set_completed")
         ELSE Raise(a, "notify2", missing)

\* product_owner.py 195, staff_engineer.py 301, engineering_manager.py 368
SetCompleted(a) ==
  CallStep(a, "set_completed", CallOp("update_status", "completed", CompletedNote(a), None),
           "report")

\* the prints after the last status write and check_other_agents_status:
\* product_owner.py 198-214, staff_engineer.py 304-320,
\* engineering_manager.py 371-383
Report(a) ==
  LET r == loc[a].analysis
      needed == IF a = EM THEN r.f2 /\ r.late ELSE r.late
  IN  IF needed
      THEN CallStep(a, "report", CallOp("read_json", None, None, None), "return")
      ELSE Raise(a, "report", "KeyError")

\* run() returns and the script ends with exit status 0
Return(a) ==
  /\ LocalStep(a, "return", "exit0")
  /\ UNCHANGED loc

\* a handler that lets the exception pass without recording it
HandlerSilent(a) ==
  /\ a # PO
  /\ LocalStep(a, "handler", "reraise")
  /\ UNCHANGED loc

\* staff_engineer.py 327-329, engineering_manager.py 390-392
Handler(a) ==
  /\ a # PO
  /\ CallStep(a, "handler", CallOp("update_status", "error", loc[a].exc, None), "reraise")

\* staff_engineer.py 330, engineering_manager.py 393: `raise`, the script
\* ends with a traceback and exit status 1
Reraise(a) ==
  /\ LocalStep(a, "reraise", "exit1")
  /\ UNCHANGED loc

\* the steps of run() from update_status("initializing") on, but for the
\* sleep of the wait and the call of the model
StepOfRun(a) ==
  \/ SetInitializing(a)
  \/ WaitStart(a)
  \/ PollLoop(a)
  \/ PollReturn(a)
  \/ FetchAfterWait(a)
  \/ ReadInputs(a)
  \/ SetWorking(a)
  \/ FetchMessages(a)
  \/ Store(a)
  \/ Notify(a)
  \/ Notify2(a)
  \/ SetCompleted(a)
  \/ Report(a)
  \/ Return(a)
  \/ Handler(a)
  \/ Reraise(a)

\* the steps of a script after its constructor, but for the sleep of the
\* wait and the call of the model
ScriptStep(a) ==
  \/ ReadTask(a)
  \/ StepOfRun(a)

AgentStep(a) ==
  \/ Construct(a)
  \/ PollEval(a)
  \/ AskModel(a)
  \/ ScriptStep(a)

NextRun ==
  \/ Launch
  \/ Reap
  \/ Finish
  \/ \E a \in Agents : AgentStep(a)
  \/ \E a \in Agents : ReadLock(a)
  \/ \E a \in Agents : ReadLoad(a)
  \/ \E a \in Agents : WriteLock(a)
  \/ \E a \in Agents : WriteOpen(a)
  \/ \E a \in Agents : WriteDump(a)

SpecRun == Init /\ [][NextRun]_vars

\* ------------------------------------- the three scripts started side by side
\* each script is a program of its own (its main() takes the path of the
\* document): it is started while another one is still running; the runs
\* explored are those in which engineering_manager has not been started yet
LaunchAny(a) ==
  /\ a \in Procs
  /\ apc[a] = "none"
  /\ apc' = [apc EXCEPT ![a] = "ctor"]
  /\ UNCHANGED <<file, lock, now, pc, op, data, inbox, err, calls, ver, rver, snap,
                 lastw, wt, orch, loc, othervars>>

\* the runs in which the credential is set, the sleeps have no jitter and the
\* call of the model fails, so that every agent uses its fallback
SteadyJitter == {10}
Offline == {[analysis |-> Fallback, api_used |-> FALSE]}

NextConc ==
  \/ \E a \in Agents : LaunchAny(a)
  \/ \E a \in Agents : ConstructWith(a, {TRUE})
  \/ \E a \in Agents : PollEvalWith(a, SteadyJitter)
  \/ \E a \in Agents : AskModelWith(a, Offline)
  \/ \E a \in Agents : ScriptStep(a)
  \/ \E a \in Agents : ReadLock(a)
  \/ \E a \in Agents : ReadLoad(a)
  \/ \E a \in Agents : WriteLock(a)
  \/ \E a \in Agents : WriteOpen(a)
  \/ \E a \in Agents : WriteDump(a)

SpecConc == Init /\ [][NextConc]_vars

\* -------- staff_engineer and engineering_manager started side by side after
\* product_owner has run alone to its end with the fallback analysis, every
\* one of its writes stamped MaxTime
PoInitializing == UpdateStatusData(InitialData, PO, "initializing", None, MaxTime)
PoWorking == UpdateStatusData(PoInitializing, PO, "working", WorkingNote(PO), MaxTime)
PoStored == PayloadData(PoWorking, PO, Fallback, FALSE)
PoNotified == SendMessageData(PoStored, PO, SE, "client_interrogation", "text", MaxTime)
PoCompleted == UpdateStatusData(PoNotified, PO, "completed", CompletedNote(PO), MaxTime)

\* the state in which product_owner.py has ended and no other script has
\* started, the clock being at the last value the model tells apart
AfterProductOwner ==
  /\ file = [state |-> "full", text |-> Dump(PoCompleted)]
  /\ lock = NoProc
  /\ now = MaxTime
  /\ pc = [p \in Agents |-> "idle"]
  /\ op = [p \in Agents |-> IF p = PO THEN CallOp("read_json", None, None, None) ELSE NoOp]
  /\ data = [p \in Agents |-> IF p = PO THEN PoCompleted ELSE NoDoc]
  /\ inbox = [p \in Agents |-> EmptyMap]
  /\ err = [p \in Agents |-> None]
  /\ calls = 0
  /\ ver = 5
  /\ rver = [p \in Agents |-> IF p = PO THEN 5 ELSE 0]
  /\ snap = [p \in Agents |-> IF p = PO THEN PoCompleted ELSE NoDoc]
  /\ lastw = [by |-> PO, stale |-> FALSE, before |-> PoNotified, after |-> PoCompleted,
              read |-> PoNotified,
              op |-> CallOp("update_status", "completed", CompletedNote(PO), None)]
  /\ wt = [p \in Agents |-> NoWait]
  /\ orch = 1
  /\ apc = [p \in Agents |-> IF p = PO THEN "exit0" ELSE "none"]
  /\ loc = [p \in Agents |->
              IF p = PO THEN [analysis |-> Fallback, api_used |-> FALSE, exc |-> None]
              ELSE NoLocals]

InitLate == AfterProductOwner /\ InitOther

\* staff_engineer.py 332-344, engineering_manager.py 395-407: main(), started
\* by hand
LaunchLate(a) ==
  /\ a \in {SE, EM}
  /\ apc[a] = "none"
  /\ apc' = [apc EXCEPT ![a] = "ctor"]
  /\ UNCHANGED <<file, lock, now, pc, op, data, inbox, err, calls, ver, rver, snap,
                 lastw, wt, orch, loc, othervars>>

NextLate ==
  \/ \E a \in Agents : LaunchLate(a)
  \/ \E a \in Agents : ConstructWith(a, {TRUE})
  \/ \E a \in Agents : PollEvalWith(a, SteadyJitter)
  \/ \E a \in Agents : AskModelWith(a, Offline)
  \/ \E a \in Agents : StepOfRun(a)
  \/ \E a \in Agents : ReadLock(a)
  \/ \E a \in Agents : ReadLoad(a)
  \/ \E a \in Agents : WriteLock(a)
  \/ \E a \in Agents : WriteOpen(a)
  \/ \E a \in Agents : WriteDump(a)

SpecLate == InitLate /\ [][NextLate]_vars

\* ------------------------------------------- the model's reply and its parse
\* the number of calls of the reply-consuming methods
MaxParses == 2

\* a reply is a sequence of pieces of text: the opening fence of a json code
\* block, the three-backquote fence, white space, the text of a JSON object,
\* and text that is not JSON
FenceJson == "<fence>json"
Fence == "<fence>"
Blank == " "
ObjectText == "{}"
Prose == "Here is my analysis"

\* what json.loads returns for ObjectText
ObjectValue == EmptyMap

ReplyTexts ==
  {<<>>, <<ObjectText>>, <<Blank, ObjectText, Blank>>, <<FenceJson, ObjectText, Fence>>,
   <<Blank, FenceJson, Blank, ObjectText, Blank, Fence>>, <<Fence, ObjectText, Fence>>,
   <<Prose>>, <<Prose, ObjectText>>, <<FenceJson, Prose, Fence>>}

\* the tasks the methods are called with
TaskArgs == {InitialData["task"], "Export to CSV"}

\* the staff engineer analyses the engineering manager is called with: the
\* fallback's complexity_analysis, another estimate, and none
SeAnalyses ==
  {[complexity_analysis |-> [estimated_effort |-> "2-4 weeks"]],
   [complexity_analysis |-> [estimated_effort |-> "1 week"]],
   [complexity_analysis |-> EmptyMap],
   EmptyMap}

DefaultStack == "NestJS + NextJS + PostgreSQL"

\* str.strip()
RECURSIVE LStrip(_)
LStrip(t) == IF t # <<>> /\ Head(t) = Blank THEN LStrip(Tail(t)) ELSE t

RECURSIVE RStrip(_)
RStrip(t) ==
  IF t # <<>> /\ t[Len(t)] = Blank THEN RStrip(SubSeq(t, 1, Len(t) - 1)) ELSE t

Strip(t) == RStrip(LStrip(t))

\* "Clean up JSON response": strip, drop a leading json fence, drop a trailing
\* fence, strip
CleanUp(text) ==
  LET r0 == Strip(text)
      r1 == IF r0 # <<>> /\ Head(r0) = FenceJson THEN Tail(r0) ELSE r0
      r2 == IF r1 # <<>> /\ r1[Len(r1)] = Fence THEN SubSeq(r1, 1, Len(r1) - 1) ELSE r1
  IN  Strip(r2)

\* json.loads: one JSON value, blanks around it allowed; anything else raises
\* json.JSONDecodeError
JsonLoads(t) ==
  IF Strip(t) = <<ObjectText>> THEN [ok |-> TRUE, value |-> ObjectValue]
  ELSE [ok |-> FALSE, value |-> None]

\* a version without the except clause
ParseReplyUncaught(reply, fallback) ==
  LET r == JsonLoads(CleanUp(reply))
  IN  IF r.ok THEN [raised |-> None, value |-> r.value]
      ELSE [raised |-> "JSONDecodeError", value |-> EmptyMap]

\* try: return json.loads(response) / except json.JSONDecodeError: return the
\* fallback
ParseReply(reply, fallback) ==
  LET r == JsonLoads(CleanUp(reply))
  IN  IF r.ok THEN [raised |-> None, value |-> r.value]
      ELSE [raised |-> None, value |-> fallback]

\* product_owner.py: the fallback of interrogate_client_and_analyze
PoFallback(task) ==
  [questions |-> <<"What is the expected number of concurrent users?",
                   "What are the main user roles?">>,
   assumptions |-> <<"Standard web application", "Basic CRUD operations needed">>,
   specifications |-> << <<"Implement ", task, " with basic functionality">> >>,
   business_context |-> <<"This feature will improve user productivity for ", task>>]

\* staff_engineer.py: the fallback of question_and_architect
SeFallback(stack) ==
  [technical_questions |-> <<"What is the expected data volume?",
                             "How many concurrent connections?">>,
   architecture |-> [components |-> <<"Backend API", "Frontend App", "Database">>,
                     data_flow |-> "Standard client-server architecture",
                     apis |-> <<"REST API endpoints">>],
   technology_decisions |-> << <<"Using ", stack, " as specified">> >>,
   complexity_analysis |-> [high_risk |-> <<"Integration complexity">>,
                            estimated_effort |-> "2-4 weeks",
                            technical_debt |-> <<"Potential performance bottlenecks">>],
   implementation_phases |-> <<"Phase 1: Backend setup",
                               "Phase 2: Frontend implementation">>,
   scalability_concerns |-> <<"Database performance under load">>]

\* engineering_manager.py, line 78:
\* se_analysis.get('complexity_analysis', {}).get('estimated_effort', '2-4 weeks')
EstimatedEffort(se_analysis) ==
  LET c == IF Has(se_analysis, "complexity_analysis") THEN se_analysis["complexity_analysis"]
           ELSE EmptyMap
  IN  IF Has(c, "estimated_effort") THEN c["estimated_effort"] ELSE "2-4 weeks"

\* engineering_manager.py: the fallback of coordinate_and_generate_prompts
EmFallback(task, estimated_effort) ==
  [coordination |-> [conflicts_identified |-> <<"No major conflicts identified">>,
                     resolutions |-> <<"Proceed with implementation as planned">>],
   claude_code_prompts |-> << <<"Create database schema for ", task>>,
                              <<"Implement backend API for ", task>>,
                              <<"Build frontend components for ", task>> >>,
   execution_plan |-> <<"Execute database setup", "Implement backend services",
                        "Build frontend interface", "Integration testing">>,
   quality_gates |-> <<"Database schema validated", "API endpoints tested",
                       "Frontend functionality verified">>,
   priority_assessment |->
     [priority_level |-> "medium",
      business_impact |-> <<"Implementation of ", task, " will improve user workflow">>,
      recommended_timeline |-> estimated_effort]]

\* the variables of the workflow
flowvars == <<file, lock, now, pc, op, data, inbox, err, calls, ver, rver, snap, lastw,
              wt, orch, apc, loc>>

\* one call of a reply-consuming method, once the model has replied
Consumed(method, task, stack, se_analysis, reply, result) ==
  /\ Len(parsed) < MaxParses
  /\ parsed' = Append(parsed, [method |-> method, task |-> task, stack |-> stack,
                               se_analysis |-> se_analysis, reply |-> reply,
                               result |-> result])
  /\ UNCHANGED <<flowvars, projects, current_project, console, shared_context>>

interrogate_client_and_analyze(task, reply) ==
  Consumed(PO, task, DefaultStack, EmptyMap, reply, ParseReply(reply, PoFallback(task)))

question_and_architect(task, stack, reply) ==
  Consumed(SE, task, stack, EmptyMap, reply, ParseReply(reply, SeFallback(stack)))

coordinate_and_generate_prompts(task, se_analysis, reply) ==
  Consumed(EM, task, DefaultStack, se_analysis, reply,
           ParseReply(reply, EmFallback(task, EstimatedEffort(se_analysis))))

NextParse ==
  \/ \E t \in TaskArgs, r \in ReplyTexts : interrogate_client_and_analyze(t, r)
  \/ \E t \in TaskArgs, r \in ReplyTexts : question_and_architect(t, DefaultStack, r)
  \/ \E t \in TaskArgs, s \in SeAnalyses, r \in ReplyTexts :
       coordinate_and_generate_prompts(t, s, r)

SpecParse == Init /\ [][NextParse]_vars

\* --------------------------------------- poc4: the conversational-agent CLI
\* the number of messages a conversation history holds at most
MaxHistory == 4

\* the names typed after /project and /project-new: those of ProjectNames and
\* one validate_project_name rejects
NameArgs == ProjectNames \cup {"a.b"}

\* the messages typed at the prompt
UserTexts == {"hello", "add login?"}

\* project_manager.py 19-24: re.match(r'^[a-zA-Z0-9_&-]+$', name)
validate_project_name(name) == name \in ProjectNames

\* project_manager.py 30-32: os.path.exists(projects/<name>.json)
project_exists(files, name) == files[name] # NoFile

\* project_manager.py 55-90: initial_state, by the fields the pipeline changes
InitialState(name) ==
  [project_name |-> name,
   current_step |-> "input_processing",
   user_input |-> "",
   conversation_history |-> <<>>,
   current_position |-> 0]

\* project_manager.py 47-97: create_project refuses an invalid name and an
\* existing project, and otherwise writes the initial state
create_project(files, name) ==
  IF ~validate_project_name(name) THEN [ok |-> FALSE, files |-> files]
  ELSE IF project_exists(files, name) THEN [ok |-> FALSE, files |-> files]
  ELSE [ok |-> TRUE, files |-> [files EXCEPT ![name] = InitialState(name)]]

\* project_manager.py 99-108
select_project(files, current, name) ==
  IF validate_project_name(name) /\ project_exists(files, name) THEN name ELSE current

\* main.py 154-174: /project <name>
select_or_create_project(name) ==
  /\ IF ~validate_project_name(name)
       THEN /\ console' = [cmd |-> "/project", arg |-> name, out |-> "Invalid project name"]
            /\ UNCHANGED <<projects, current_project>>
       ELSE IF project_exists(projects, name)
         THEN /\ current_project' = select_project(projects, current_project, name)
              /\ console' = [cmd |-> "/project", arg |-> name, out |-> "Selected project"]
              /\ UNCHANGED projects
         ELSE LET r == create_project(projects, name)
              IN  /\ projects' = r.files
                  /\ current_project' =
                       IF r.ok THEN select_project(r.files, current_project, name)
                       ELSE current_project
                  /\ console' = [cmd |-> "/project", arg |-> name,
                                 out |-> IF r.ok THEN "Created and selected new project"
                                         ELSE "Failed to create project"]
  /\ UNCHANGED <<flowvars, parsed, shared_context>>

\* main.py 176-190: /project-new <name>
create_new_project(name) ==
  /\ IF ~validate_project_name(name)
       THEN /\ console' = [cmd |-> "/project-new", arg |-> name,
                           out |-> "Invalid project name"]
            /\ UNCHANGED <<projects, current_project>>
       ELSE IF project_exists(projects, name)
         THEN /\ console' = [cmd |-> "/project-new", arg |-> name,
                             out |-> "already exists"]
              /\ UNCHANGED <<projects, current_project>>
         ELSE LET r == create_project(projects, name)
              IN  /\ projects' = r.files
                  /\ current_project' =
                       IF r.ok THEN select_project(r.files, current_project, name)
                       ELSE current_project
                  /\ console' = [cmd |-> "/project-new", arg |-> name,
                                 out |-> IF r.ok THEN "Created and selected new project"
                                         ELSE "Failed to create project"]
  /\ UNCHANGED <<flowvars, parsed, shared_context>>

\* the five steps of the pipeline on one stored state: process_input,
\* build_context (appends the user's message), analyze_intent,
\* generate_response, format_output (appends the assistant's message)
PipelineState(state, text) ==
  [state EXCEPT !.user_input = text,
                !.conversation_history =
                   state.conversation_history
                     \o <<[role |-> "user", text |-> text],
                          [role |-> "assistant", text |-> "reply"]>>,
                !.current_step = "completed",
                !.current_position = 5]

\* main.py 39-49, 205-223: a message typed with a project selected
run_full_pipeline_with_input(text) ==
  /\ current_project # None
  /\ project_exists(projects, current_project)
  /\ Len(projects[current_project].conversation_history) + 2 <= MaxHistory
  /\ projects' = [projects EXCEPT
                    ![current_project] = PipelineState(projects[current_project], text)]
  /\ console' = [cmd |-> "message", arg |-> text, out |-> "CONVERSATIONAL AGENT RESPONSE"]
  /\ UNCHANGED <<flowvars, parsed, current_project, shared_context>>

\* main.py 86-89, 339-355: /reset, answered with `confirm`
reset_conversation(confirm) ==
  /\ current_project # None
  /\ IF confirm = "y"
       THEN LET r == create_project(projects, current_project)
            IN  /\ projects' = r.files
                /\ console' = [cmd |-> "/reset", arg |-> confirm,
                               out |-> IF r.ok THEN "conversation reset"
                                       ELSE "Failed to reset project"]
       ELSE /\ console' = [cmd |-> "/reset", arg |-> confirm, out |-> "Reset cancelled"]
            /\ UNCHANGED projects
  /\ UNCHANGED <<flowvars, parsed, current_project, shared_context>>

NextCli ==
  \/ \E n \in NameArgs : select_or_create_project(n)
  \/ \E n \in NameArgs : create_new_project(n)
  \/ \E t \in UserTexts : run_full_pipeline_with_input(t)
  \/ \E confirm \in {"y", "n"} : reset_conversation(confirm)

SpecCli == Init /\ [][NextCli]_vars

\* ------------------------------- poc3: the consciousness component's memory
\* the number of decisions the decision history holds at most
MaxDecisions == 2

\* what the user types
InputTexts == {"users need to log in", "hello"}

\* the actions the analysis prompt offers
DecisionActions ==
  {"create_user_story", "ask_clarification", "continue_conversation", "update_context"}

\* the extracted_requirements of a reply
RequirementLists == {<<>>, <<"login">>, <<"login", "logout">>}

\* a reply that is not JSON, or a failed call of the model
NoDecision == [action |-> None, extracted_requirements |-> <<>>]

\* the replies of the model to the analysis prompt
DecisionReplies ==
  {[action |-> a, extracted_requirements |-> r] : a \in DecisionActions,
                                                   r \in RequirementLists}
    \cup {NoDecision}

\* consciousness_memory.py 59-84: the structure written when the file is empty
InitialMemory ==
  [active_requirements |-> <<>>,
   pending_actions |-> <<>>,
   completed_actions |-> <<>>,
   decision_history |-> <<>>,
   last_communication_input |-> None]

\* memory_manager.py 57-84 and 86-110: read parses the file into a new
\* dictionary at every call, write replaces the file
StorageRead(f) == IF f = NoFile THEN EmptyMap ELSE f
StorageWrite(f, d) == d

\* consciousness_memory.py 49-84
ensure_memory_structure(f) ==
  LET d == StorageRead(f)
  IN  IF d = EmptyMap THEN StorageWrite(f, InitialMemory) ELSE f

\* consciousness_memory.py 298-314
update_component_interaction(f, payload) ==
  StorageWrite(f, [StorageRead(f) EXCEPT !.last_communication_input = payload])

\* consciousness_memory.py 226-248
record_decision(f, trigger, decision, action_taken) ==
  LET d == StorageRead(f)
  IN  StorageWrite(f, [d EXCEPT !.decision_history =
                         Append(@, [trigger |-> trigger, decision |-> decision,
                                    action_taken |-> action_taken])])

\* consciousness_memory.py 108-138
add_requirement(f, text) ==
  LET d == StorageRead(f)
  IN  StorageWrite(f, [d EXCEPT !.active_requirements =
                         Append(@, [requirement_id |-> <<"REQ", Len(@) + 1>>,
                                    text |-> text, status |-> "identified"])])

RECURSIVE AddRequirements(_, _)
AddRequirements(f, reqs) ==
  IF reqs = <<>> THEN f ELSE AddRequirements(add_requirement(f, Head(reqs)), Tail(reqs))

\* consciousness_memory.py 175-178: the id add_pending_action generates
NextActionId(f) ==
  LET d == StorageRead(f)
  IN  <<"ACTION", Len(d.pending_actions) + Len(d.completed_actions) + 1>>

\* consciousness_memory.py 163-193
add_pending_action(f, requirements, user_input) ==
  LET d == StorageRead(f)
  IN  StorageWrite(f, [d EXCEPT !.pending_actions =
                         Append(@, [action_id |-> NextActionId(f),
                                    action_type |-> "create_user_story",
                                    requirements |-> requirements,
                                    user_input |-> user_input,
                                    status |-> "pending"])])

\* the text of action_taken after story creation was triggered
TriggeredText(action_id) == <<"Triggered user story creation (Action: ", action_id, ")">>

\* consciousness.py 259-262: latest_decision is the last record of the
\* dictionary one read() returned; the assignment changes that dictionary;
\* write(read()) then stores the dictionary of another read()
UpdateDecisionRecord(f, action_id) ==
  LET first == StorageRead(f)
      latest_decision == [first.decision_history[Len(first.decision_history)]
                            EXCEPT !.action_taken = TriggeredText(action_id)]
      second == StorageRead(f)
  IN  StorageWrite(f, second)

\* consciousness.py 230-267, with user_story_creator set (main.py 115)
handle_user_story_creation(f, decision, user_input) ==
  LET f1 == AddRequirements(f, decision.extracted_requirements)
  IN  IF decision.extracted_requirements # <<>>
      THEN UpdateDecisionRecord(
             add_pending_action(f1, decision.extracted_requirements, user_input),
             NextActionId(f1))
      ELSE f1

\* consciousness.py 208-228 and the four handlers
execute_decision(f, decision, user_input) ==
  CASE decision.action = "create_user_story" ->
         handle_user_story_creation(f, decision, user_input)
    [] decision.action = "update_context" ->
         AddRequirements(f, decision.extracted_requirements)
    [] OTHER -> f

\* what the handler of the decision shows to the user
Displayed(decision) ==
  CASE decision.action = "create_user_story" ->
         <<"I've identified ", Len(decision.extracted_requirements), " requirement(s)">>
    [] decision.action = "update_context" -> <<"I've noted that information">>
    [] decision.action = "ask_clarification" -> <<"Could you provide more details">>
    [] OTHER -> <<"Please tell me more about your requirements">>

\* consciousness.py 43-60: the component is built: ConsciousnessMemory.__init__
ConsciousnessComponent ==
  /\ shared_context = NoFile
  /\ shared_context' = ensure_memory_structure(shared_context)
  /\ UNCHANGED <<flowvars, parsed, projects, current_project, console>>

\* consciousness.py 111-134: process_communication_input, `reply` being the
\* model's answer to the analysis prompt
process_communication_input(user_input, reply) ==
  /\ shared_context # NoFile
  /\ Len(shared_context.decision_history) < MaxDecisions
  /\ LET f1 == update_component_interaction(shared_context, user_input)
         decision == IF reply = NoDecision
                     THEN [action |-> "continue_conversation",
                           extracted_requirements |-> <<>>]
                     ELSE reply
         f2 == IF reply = NoDecision THEN f1
               ELSE record_decision(f1, user_input, reply.action, None)
     IN  /\ shared_context' = execute_decision(f2, decision, user_input)
         /\ console' = [cmd |-> "input", arg |-> user_input, out |-> Displayed(decision)]
  /\ UNCHANGED <<flowvars, parsed, projects, current_project>>

\* consciousness.py clear_context, consciousness_memory.py 349-357
clear_context ==
  /\ shared_context # NoFile
  /\ shared_context' = ensure_memory_structure(NoFile)
  /\ console' = [cmd |-> "clear", arg |-> None, out |-> "Shared context cleared"]
  /\ UNCHANGED <<flowvars, parsed, projects, current_project>>

NextMind ==
  \/ ConsciousnessComponent
  \/ \E t \in InputTexts, r \in DecisionReplies : process_communication_input(t, r)
  \/ clear_context

SpecMind == Init /\ [][NextMind]_vars

\* ------------------------------------------------------------------ claims
InCS(p) == pc[p] \in {"r_load", "w_open", "w_dump"}

\* C1: at most one process is between taking and releasing the lock of
\* read_json / write_json, a reader that holds the lock finds the file
\* completely written, and no read_json fails on a half-written file.
C1_MutualExclusion ==
  /\ \A p \in Procs, q \in Procs : p # q => ~(InCS(p) /\ InCS(q))
  /\ \A p \in Procs : pc[p] = "r_load" => file.state = "full"
  /\ \A p \in Procs : err[p] # "JSONDecodeError"

\* a reader waits for the lock while a writer has truncated the file
C1_Witness ==
  \E p \in Procs, q \in Procs :
    /\ pc[p] = "w_dump" /\ file.state = "torn" /\ lock = p
    /\ pc[q] = "r_lock"

\* the keys of the top level, of an agent record and of a message that a call
\* `o` of process p assigns
SameOutside(o, p, x, y) ==
  LET xm == IF Has(x, "messages") THEN x["messages"] ELSE EmptyMap
      ym == IF Has(y, "messages") THEN y["messages"] ELSE EmptyMap
      touched(r, k) ==
        \/ o.name = "send_message_to_agent" /\ r = o.a1 /\ k = o.a2
        \/ o.name = "get_messages" /\ r = p
  IN
  /\ \A k \in (DOMAIN x \cup DOMAIN y) \ {"agents", "messages", "iterations"} :
       Has(x, k) /\ Has(y, k) /\ x[k] = y[k]
  /\ o.name # "increment_iteration" => x["iterations"] = y["iterations"]
  /\ \A a \in Agents : (o.name = "update_status" /\ a = p) \/ x["agents"][a] = y["agents"][a]
  /\ \A r \in DOMAIN xm \cup DOMAIN ym :
       \A k \in (IF r \in DOMAIN xm THEN DOMAIN xm[r] ELSE {})
                 \cup (IF r \in DOMAIN ym THEN DOMAIN ym[r] ELSE {}) :
         \/ touched(r, k)
         \/ /\ r \in DOMAIN xm /\ r \in DOMAIN ym
            /\ k \in DOMAIN xm[r] /\ k \in DOMAIN ym[r]
            /\ xm[r][k] = ym[r][k]

\* the mutation of call `o` of process p is present in document y
Applied(o, p, y) ==
  CASE o.name = "update_status" -> y["agents"][p]["status"] = o.a1
    [] o.name = "send_message_to_agent" ->
         /\ ~NoInbox(y, o.a1) /\ o.a2 \in DOMAIN y["messages"][o.a1]
         /\ y["messages"][o.a1][o.a2]["content"] = o.a3
         /\ y["messages"][o.a1][o.a2]["from"] = p
    [] o.name = "get_messages" ->
         \A k \in DOMAIN y["messages"][p] : y["messages"][p][k]["read"]
    [] OTHER -> TRUE

\* C2: when another write_json completed between a caller's read_json and its
\* write_json, the caller's write is not rejected: the file then holds the
\* caller's view, every field the call does not assign as the caller read it.
C2_LastWriterWins ==
  lastw.stale =>
    /\ file.state = "full" => Load(file.text) = lastw.after
    /\ SameOutside(lastw.op, lastw.by, lastw.read, lastw.after)
    /\ Applied(lastw.op, lastw.by, lastw.after)

\* writer 1's status update is gone after writer 2's stale write
C2_Witness ==
  /\ lastw.stale /\ file.state = "full" /\ Load(file.text) = lastw.after
  /\ \E a \in Procs :
       /\ a # lastw.by
       /\ lastw.before["agents"][a]["status"] # "pending"
       /\ lastw.after["agents"][a]["status"] = "pending"

C4_SequentialCyclesKeepBoth ==
  (lastw.by # NoProc /\ ~lastw.stale) =>
    /\ lastw.read = lastw.before
    /\ SameOutside(lastw.op, lastw.by, lastw.before, lastw.after)
    /\ Applied(lastw.op, lastw.by, lastw.after)
    /\ file.state = "full" => Load(file.text) = lastw.after

\* two agents updated their own status one after the other, both are stored
C4_Witness ==
  /\ lastw.by # NoProc /\ ~lastw.stale /\ lastw.op.name = "update_status"
  /\ file.state = "full"
  /\ \E a \in Procs :
       /\ a # lastw.by
       /\ lastw.before["agents"][a]["status"] = "working"
       /\ Load(file.text)["agents"][a]["status"] = "working"
       /\ Load(file.text)["agents"][lastw.by]["status"] = "completed"

\* the place of a status in pending, initializing, working, {completed | error}
StatusRank(s) ==
  CASE s = "pending" -> 0
    [] s = "initializing" -> 1
    [] s = "working" -> 2
    [] OTHER -> 3

StatusOf(d, a) == d["agents"][a]["status"]

\* C5: the statuses an agent takes in one run are a subsequence of pending,
\* initializing, working, then exactly one of completed or error: every change
\* of the stored status goes strictly forward in that order, so a status of
\* completed or error never changes again.
C5_StatusMonotone ==
  [][\A a \in Agents :
       \/ StatusOf(Committed', a) = StatusOf(Committed, a)
       \/ StatusRank(StatusOf(Committed, a)) < StatusRank(StatusOf(Committed', a))]_vars

\* the get_messages call of p has read the document
Fetched(p) ==
  /\ op[p].name = "get_messages" /\ op[p].a1 = TRUE
  /\ pc[p] \in {"w_lock", "w_open", "w_dump", "idle"}
  /\ ~NoInbox(snap[p], p)

\* C6: get_messages() returns each message with the content and sender it was
\* sent with, and with read == false when the stored flag was false before
\* the call (the first fetch), read == true when it was true (a later fetch).
C6_FirstFetchUnread ==
  \A p \in Procs : Fetched(p) =>
    \A k \in DOMAIN snap[p]["messages"][p] :
      /\ k \in DOMAIN inbox[p]
      /\ inbox[p][k]["content"] = snap[p]["messages"][p][k]["content"]
      /\ inbox[p][k]["from"] = snap[p]["messages"][p][k]["from"]
      /\ inbox[p][k]["read"] = snap[p]["messages"][p][k]["read"]

WasRead(d, r, k) ==
  /\ ~NoInbox(d, r) /\ k \in DOMAIN d["messages"][r]
  /\ d["messages"][r][k]["read"]

\* C7 as claimed: an entry messages[r][k] that is read stays read.
C7_ReadNeverUnmarked ==
  [][\A r \in Agents, k \in KeyArgs :
       WasRead(Committed, r, k) => WasRead(Committed', r, k)]_vars

\* C7 amended: an entry messages[r][k] that is read stays read until a
\* send_message_to_agent(r, k, ...) replaces it by a new message; no
\* get_messages call resets a flag and no entry disappears.
C7_UnmarkedOnlyByResend ==
  [][\A r \in Agents, k \in KeyArgs :
       WasRead(Committed, r, k) =>
         \/ WasRead(Committed', r, k)
         \/ \E p \in Procs :
              /\ pc[p] = "w_dump" /\ pc'[p] = "idle"
              /\ op[p].name = "send_message_to_agent"
              /\ op[p].a1 = r /\ op[p].a2 = k
              /\ Applied(op[p], p, Committed')]_vars

\* a read message was replaced by a new unread one under the same key
C7_Witness ==
  /\ lastw.op.name = "send_message_to_agent"
  /\ WasRead(lastw.before, lastw.op.a1, lastw.op.a2)
  /\ ~WasRead(lastw.after, lastw.op.a1, lastw.op.a2)
  /\ file.state = "full" /\ ~WasRead(Load(file.text), lastw.op.a1, lastw.op.a2)

RECURSIVE Pow2(_)
Pow2(n) == IF n = 0 THEN 1 ELSE 2 * Pow2(n - 1)

\* C8: a wait whose condition was false at every evaluation ends after exactly
\* max_attempts evaluations with the result False, which the caller turns into
\* TimeoutError; the number of evaluations never exceeds max_attempts.
C8_ExactlyNEvaluations ==
  LET w == wt[Waiter] IN
  /\ w.evals <= w.max_attempts
  /\ w.attempts <= w.max_attempts
  /\ w.at \in {"returned_false", "TimeoutError"} =>
       /\ w.evals = w.max_attempts
       /\ Len(w.sleeps) = w.evals
  /\ (w.at \in {"returned_true", "proceeded"}) => Len(w.sleeps) = w.evals - 1

\* a wait with the default five attempts timed out
C8_Witness ==
  /\ wt[Waiter].at = "TimeoutError"
  /\ wt[Waiter].max_attempts = DefaultMaxAttempts
  /\ wt[Waiter].evals = DefaultMaxAttempts

\* C9: the delay starts at initial_wait and doubles after every failed
\* attempt; the k-th sleep is between 0.8 and 1.2 times initial_wait * 2^k;
\* no sleep is shorter than the one before it.
C9_BackoffDoubles ==
  LET w == wt[Waiter] IN
  w.at # "none" =>
    /\ w.wait_time = w.initial_wait * Pow2(w.attempts)
    /\ \A k \in 1..Len(w.sleeps) :
         /\ 8 * w.initial_wait * Pow2(k - 1) <= w.sleeps[k]
         /\ w.sleeps[k] <= 12 * w.initial_wait * Pow2(k - 1)
         /\ k > 1 => w.sleeps[k - 1] <= w.sleeps[k]

\* the longest jitter followed by the shortest one
C9_Witness ==
  LET w == wt[Waiter] IN
  /\ Len(w.sleeps) >= 3
  /\ w.sleeps[1] = 12 * w.initial_wait
  /\ w.sleeps[2] = 8 * w.initial_wait * 2
  /\ w.wait_time = w.initial_wait * 8

\* the polling wait of agent a ended with TimeoutError
TimedOut(a) == loc[a].exc = TimeoutText(a)

\* C10: when the polling wait of staff_engineer or engineering_manager
\* exhausts its attempts, the agent goes to its handler only, the document
\* never holds a payload key of that agent, the agent's stored status is error
\* with the timeout message when it re-raises and ever after, the script ends
\* with a failure, and the orchestrator's loop ends only after every script,
\* the one after the failed agent too, was launched.
C10_TimeoutMarksErrorAndGoesOn ==
  /\ \A a \in {SE, EM} : TimedOut(a) =>
       /\ apc[a] \in {"handler", "reraise", "exit1"}
       /\ ~Has(Committed, PayloadKey(a))
       /\ ~Has(Committed, ReasoningKey(a))
       /\ a = EM => Committed["workflow_state"] = InitialData["workflow_state"]
       /\ (apc[a] \in {"reraise", "exit1"} /\ pc[a] = "idle") =>
            /\ StatusOf(Committed, a) = "error"
            /\ Committed["agents"][a]["message"] = TimeoutText(a)
            /\ file.state = "full" => StatusOf(Load(file.text), a) = "error"
  /\ orch >= 4 => \A a \in Agents : apc[a] \in {"exit0", "exit1"}
  /\ \A i \in 1..3 : apc[Script(i)] # "none" => orch >= i

\* staff_engineer timed out and ended with status error, and the orchestrator
\* launched engineering_manager after it
C10_Witness ==
  /\ TimedOut(SE)
  /\ apc[SE] = "exit1"
  /\ StatusOf(Committed, SE) = "error"
  /\ Committed["agents"][SE]["message"] = TimeoutText(SE)
  /\ orch = 3
  /\ apc[EM] = "polling"

Exited(a) == apc[a] \in {"exit0", "exit1"}

\* C11: the orchestrator launches every agent script exactly once, in the
\* order product_owner, staff_engineer, engineering_manager, each after the
\* one before it has ended and whether or not that one failed, and after the
\* last one it reads and prints the shared document.
C11_EveryScriptOnceInOrder ==
  /\ [](/\ apc[SE] # "none" => Exited(PO)
        /\ apc[EM] # "none" => Exited(PO) /\ Exited(SE)
        /\ orch >= 4 => \A a \in Agents : Exited(a)
        /\ orch = 4 => file.state = "full"
        /\ orch # 6
        /\ orch = 5 => file.state = "full" /\ Load(file.text) = Committed)
  /\ [][\A a \in Agents :
          /\ apc[a] # "none" => apc'[a] # "none"
          /\ (apc[a] = "none" /\ apc'[a] # "none") =>
               /\ apc'[a] = "ctor"
               /\ \A b \in Agents \ {a} : apc'[b] = apc[b]]_vars

\* all three scripts failed and the document was printed all the same
C11_Witness ==
  /\ orch = 5
  /\ \A a \in Agents : apc[a] = "exit1"
  /\ StatusOf(Committed, PO) = "working"
  /\ StatusOf(Committed, SE) = "error"
  /\ StatusOf(Committed, EM) = "error"

\* the reply parsed as JSON and lacks a field the agent's code subscripts
LacksFields(r) == r.src = "llm" /\ ~(r.f1 /\ r.f2 /\ r.f3 /\ r.late)

\* C12: when the model's reply is no JSON, or is JSON that lacks expected
\* fields, the agent stores the fallback payload under its payload key and
\* ends with status completed: it never goes to its error status, never ends
\* with a failure, and what it stored is the fallback.
C12_MalformedReplyRecovered ==
  \A a \in Agents :
    LET r == loc[a].analysis IN
    (r.src = "fallback" /\ loc[a].api_used) \/ LacksFields(r) =>
      /\ StatusOf(Committed, a) # "error"
      /\ apc[a] \notin {"handler", "reraise", "exit1"}
      /\ Exited(a) =>
           /\ StatusOf(Committed, a) = "completed"
           /\ Has(Committed, PayloadKey(a))
           /\ Committed[PayloadKey(a)] = Fallback

\* run() of agent a was entered
RunStarted(a) == apc[a] \notin {"none", "ctor"} /\ loc[a].exc # "ValueError"

\* C13: every agent whose run() starts ends with its own status completed or
\* error: no run ends, by a return or by an exception, with the status still
\* initializing or working.
C13_RunEndsTerminal ==
  \A a \in Agents :
    RunStarted(a) /\ Exited(a) => StatusOf(Committed, a) \in {"completed", "error"}

\* C14: write_json replaces the document atomically: also when the call
\* fails or the writing process dies partway through, the file holds a
\* complete document whenever no process is inside write_json, and that
\* document is the one of the last completed write.
C14_AtomicReplace ==
  (\A p \in Procs : pc[p] \notin {"w_open", "w_dump"}) =>
    /\ file.state = "full"
    /\ Load(file.text) = Committed

\* C17: also when the scripts run side by side, the lock of every call keeps
\* the workflow from losing an update: in every reachable state an agent
\* whose stored status is completed has its payload key in the document.
C17_CompletedHasPayload ==
  \A a \in Agents :
    StatusOf(Committed, a) = "completed" => Has(Committed, PayloadKey(a))

\* C15: get_messages(mark_as_read=True) reads the inbox and writes the flags
\* back within one critical section: the document its write replaces is the
\* document it read, so nothing another agent wrote during the call is
\* overwritten.
C15_FetchMarksInOneSection ==
  lastw.op.name = "get_messages" =>
    /\ lastw.read = lastw.before
    /\ ~lastw.stale

\* the agents whose results agent a waits for
Upstream(a) == CASE a = SE -> {PO} [] a = EM -> {PO, SE} [] OTHER -> {}

\* C16: staff_engineer and engineering_manager write nothing to the document
\* while an agent upstream of them is not completed: whenever one of them is
\* inside write_json, every upstream agent's stored status is completed.
C16_WritesOnlyAfterUpstream ==
  \A a \in {SE, EM} :
    pc[a] \in {"w_lock", "w_open", "w_dump"} =>
      \A u \in Upstream(a) : StatusOf(Committed, u) = "completed"

\* C18: after any sequence of update_status, send_message_to_agent,
\* get_messages and increment_iteration calls by the agents, the keys of
\* `agents` are the three the orchestrator created: in the stored document, in
\* the file and in every process's copy.
C18_AgentsKeySetFixed ==
  /\ DOMAIN Committed["agents"] = Agents
  /\ file.state = "full" => DOMAIN Load(file.text)["agents"] = Agents
  /\ \A p \in Procs : data[p] # NoDoc => DOMAIN data[p]["agents"] = Agents

\* a message was sent and then the iteration counter was incremented
C18_Witness ==
  /\ lastw.op.name = "increment_iteration"
  /\ Has(Committed, "messages")
  /\ Committed["iterations"] = 1
  /\ DOMAIN Committed["agents"] = Agents

\* C19: without the API credential the constructor of an agent raises before
\* any read or write of the document and the script ends at once: the agent
\* has called no library method and its stored status is pending, then and
\* ever after.
C19_NoCredentialStaysPending ==
  \A a \in Agents :
    loc[a].exc = "ValueError" =>
      /\ apc[a] = "exit1"
      /\ op[a] = NoOp /\ pc[a] = "idle"
      /\ snap[a] = NoDoc /\ data[a] = NoDoc /\ rver[a] = 0
      /\ lastw.by # a
      /\ StatusOf(Committed, a) = "pending"
      /\ DOMAIN Committed["agents"][a] = {"status"}
      /\ file.state = "full" => StatusOf(Load(file.text), a) = "pending"

\* no script found the credential: all three ended in their constructors, the
\* orchestrator printed the document, and every status in it is pending
C19_Witness ==
  /\ \A a \in Agents : loc[a].exc = "ValueError" /\ apc[a] = "exit1"
  /\ \A a \in Agents : StatusOf(Committed, a) = "pending"
  /\ Load(file.text) = InitialData
  /\ orch = 5

\* C20: update_status(status, message) by agent A with no other write
\* between its read and its write sets agents[A].status and
\* agents[A].last_update, sets agents[A].message only when the message is
\* non-empty, and leaves the rest of the document as it was.
C20_UpdateStatusFrame ==
  (lastw.op.name = "update_status" /\ ~lastw.stale) =>
    LET A == lastw.by
        b == lastw.before
        d == lastw.after
        rb == b["agents"][A]
        rd == d["agents"][A]
        given == lastw.op.a2 \notin {None, ""}
    IN  /\ lastw.read = b
        /\ rd["status"] = lastw.op.a1
        /\ Has(rd, "last_update")
        /\ given => Has(rd, "message") /\ rd["message"] = lastw.op.a2
        /\ ~given => /\ Has(rd, "message") = Has(rb, "message")
                     /\ Has(rb, "message") => rd["message"] = rb["message"]
        /\ DOMAIN rd \subseteq DOMAIN rb \cup {"message", "last_update"}
        /\ \A k \in DOMAIN rb \ {"status", "message", "last_update"} : rd[k] = rb[k]
        /\ DOMAIN d["agents"] = DOMAIN b["agents"]
        /\ \A x \in DOMAIN b["agents"] \ {A} : d["agents"][x] = b["agents"][x]
        /\ DOMAIN d = DOMAIN b
        /\ \A k \in DOMAIN b \ {"agents"} : d[k] = b[k]

\* an update with an empty message after one with a note: the note stays
C20_Witness ==
  /\ lastw.op.name = "update_status"
  /\ ~lastw.stale
  /\ lastw.op.a2 = ""
  /\ Has(lastw.before["agents"][lastw.by], "message")
  /\ lastw.after["agents"][lastw.by]["message"] = "note"
  /\ lastw.after["agents"][lastw.by]["status"] # lastw.before["agents"][lastw.by]["status"]

\* the pieces of a reply that are not white space
Solid(reply) == SelectSeq(reply, LAMBDA x : x # Blank)

\* the reply is one JSON object, bare or inside a json code block
IsJsonReply(reply) ==
  Solid(reply) \in {<<ObjectText>>, <<FenceJson, ObjectText>>, <<ObjectText, Fence>>,
                    <<FenceJson, ObjectText, Fence>>}

\* two calls of the same method with the same task, both answered with a reply
\* that is not JSON
SameTaskNoJson(i, j) ==
  /\ parsed[i].method = parsed[j].method
  /\ parsed[i].task = parsed[j].task
  /\ parsed[i].stack = parsed[j].stack
  /\ ~IsJsonReply(parsed[i].reply)
  /\ ~IsJsonReply(parsed[j].reply)

C22_ResetRestoresInitialState ==
  (console.cmd = "/reset" /\ console.arg = "y") =>
     /\ projects[current_project].conversation_history = <<>>
     /\ projects[current_project].current_step = "input_processing"
     /\ projects[current_project].current_position = 0

\* the last input led to a create_user_story decision that triggered story
\* creation
StoryCreationTriggered ==
  /\ console.cmd = "input"
  /\ Len(console.out) = 3
  /\ console.out[2] > 0

\* C30: after a create_user_story decision has triggered story creation, the
\* latest decision_history record in the memory file has action_taken set to
\* 'Triggered user story creation (Action: <action_id>)', not null.
C30_ActionTakenPersisted ==
  StoryCreationTriggered =>
    LET h == shared_context.decision_history
        p == shared_context.pending_actions
        t == h[Len(h)].action_taken
    IN  t # None /\ t = TriggeredText(p[Len(p)].action_id)

\* document d shows every agent upstream of a completed, with its analysis
UpstreamDone(a, d) ==
  \A u \in Upstream(a) : StatusOf(d, u) = "completed" /\ Has(d, PayloadKey(u))

\* the call stores the caller's payload (and, for engineering_manager,
\* workflow_state) or sets its status to working or completed
GatedWrite(o) ==
  \/ o.name = "put_payload"
  \/ o.name = "update_status" /\ o.a1 \in {"working", "completed"}

\* C23: staff_engineer stores staff_engineer_analysis, or sets its status to
\* working or completed, only in a call whose read of the document showed
\* product_owner completed with product_owner_analysis present;
\* engineering_manager stores engineering_manager_coordination and
\* workflow_state only in a call whose read showed both upstream agents
\* completed and both analyses present.
C23_GatedWritesFollowReadyRead ==
  /\ \A a \in {SE, EM} :
       (pc[a] \in {"w_lock", "w_open", "w_dump"} /\ GatedWrite(op[a])) =>
          UpstreamDone(a, snap[a])
  /\ (lastw.by \in {SE, EM} /\ GatedWrite(lastw.op)) => UpstreamDone(lastw.by, lastw.read)
  /\ \A a \in {SE, EM} : Has(Committed, PayloadKey(a)) => UpstreamDone(a, Committed)
  /\ Committed["workflow_state"] # InitialData["workflow_state"] =>
       UpstreamDone(EM, Committed)

\* engineering_manager has just stored its coordination, in a call that read
\* both upstream agents completed with their analyses
C23_Witness ==
  /\ lastw.by = EM
  /\ lastw.op.name = "put_payload"
  /\ UpstreamDone(EM, lastw.read)
  /\ Has(Committed, PayloadKey(EM))
  /\ Committed["workflow_state"] = "ready_for_implementation"

\* the three keys the agents store their results under
AllPayloads(d) == \A a \in Agents : Has(d, PayloadKey(a))

C25_FirstEvaluationOrNever ==
  \A a \in {SE, EM} :
    /\ wt[a].at = "returned_true" => wt[a].evals = 1 /\ wt[a].sleeps = <<>>
    /\ wt[a].at = "returned_false" =>
         wt[a].evals = DefaultMaxAttempts /\ Len(wt[a].sleeps) = DefaultMaxAttempts
    /\ (apc[a] = "polling" /\ Len(wt[a].sleeps) > 0) => ~UpstreamDone(a, Committed)

\* staff_engineer's wait succeeded at its first evaluation, staff_engineer
\* failed later, and engineering_manager's wait has used up its five
\* evaluations
C25_Witness ==
  /\ apc[SE] = "exit1"
  /\ ~TimedOut(SE)
  /\ StatusOf(Committed, SE) = "error"
  /\ wt[EM].at = "returned_false"
  /\ wt[EM].evals = DefaultMaxAttempts

\* ---------------------------------------------------------------------------
\* C26
\* product_owner has left without status completed
PoFailed == Exited(PO) /\ StatusOf(Committed, PO) # "completed"

\* C26: in the sequential run, once product_owner has ended without status
\* completed, no wait of staff_engineer or engineering_manager returns True,
\* neither of them reaches working or completed, neither of their payloads
\* is in the document, workflow_state is still "initialized", and each of
\* the two that was constructed normally ends with the timeout error, status
\* error and exit status 1.
C26_FailedProductOwnerStallsTheRest ==
  PoFailed =>
    /\ Committed["workflow_state"] = "initialized"
    /\ \A a \in {SE, EM} :
         /\ ~Has(Committed, PayloadKey(a))
         /\ wt[a].at # "returned_true"
         /\ StatusOf(Committed, a) \notin {"working", "completed"}
         /\ (Exited(a) /\ loc[a].exc # "ValueError") =>
              /\ TimedOut(a)
              /\ apc[a] = "exit1"
              /\ StatusOf(Committed, a) = "error"

\* product_owner crashed after storing its analysis (status working), and
\* both other agents timed out and are in error
C26_Witness ==
  /\ PoFailed
  /\ StatusOf(Committed, PO) = "working"
  /\ Has(Committed, PayloadKey(PO))
  /\ \A a \in {SE, EM} : TimedOut(a) /\ StatusOf(Committed, a) = "error"

\* ---------------------------------------------------------------------------
\* C27
\* the evaluations of the condition that returned False so far
FailedEvaluations(w) ==
  IF w.at \in {"returned_true", "proceeded"} THEN w.evals - 1 ELSE w.evals

\* C27: wait_with_backoff has slept exactly once for every evaluation that
\* failed, the last one included; the condition is only evaluated while
\* fewer than max_attempts sleeps were made, so after the final sleep the
\* result is False whatever the condition has become; with max_attempts = 0
\* the condition is never evaluated and the result is False.
C27_SleepAfterEveryFailure ==
  LET w == wt[Waiter] IN
  /\ Len(w.sleeps) = FailedEvaluations(w)
  /\ w.at = "eval" => Len(w.sleeps) < w.max_attempts
  /\ Len(w.sleeps) = w.max_attempts =>
       w.at \in {"loop", "returned_false", "TimeoutError"}
  /\ w.max_attempts = 0 =>
       w.evals = 0 /\ w.at \in {"loop", "returned_false", "TimeoutError"}

\* the wait slept after its last failed evaluation and returned False
C27_Witness ==
  LET w == wt[Waiter] IN
  /\ w.at = "returned_false"
  /\ w.max_attempts = 2
  /\ w.evals = 2
  /\ Len(w.sleeps) = 2

\* a wait with max_attempts = 0 returned False without an evaluation
C27_WitnessZero ==
  wt[Waiter].at = "returned_false" /\ wt[Waiter].max_attempts = 0 /\ wt[Waiter].evals = 0

\* ---------------------------------------------------------------------------
\* C28
\* the holder of the lock is inside the locked part of a call
HolderInsideCall == lock # NoProc => pc[lock] \in {"r_load", "w_open", "w_dump"}

\* a read_json of p raises in this step
ReadFails(p) ==
  pc[p] = "r_load" /\ pc'[p] = "idle" /\ err'[p] = "JSONDecodeError"

\* C28: the lock is only ever held by a process that is inside the locked
\* part of a read_json or write_json call (never by one that returned,
\* raised or died); a read_json that raises leaves the file as it was and
\* the lock free; and every process that asks for the lock gets it, unless
\* it dies first.
C28_LockReleasedOnEveryPath ==
  /\ []HolderInsideCall
  /\ [][\A p \in Procs : ReadFails(p) => file' = file /\ lock' = NoProc]_vars
  /\ \A p \in Procs :
       (pc[p] \in {"r_lock", "w_lock"}) ~> (lock = p \/ pc[p] = "dead")

\* a process died inside write_json and left the file truncated; the read
\* of the other one raised, the lock is free and the file is as it was
C28_Witness ==
  \E p, q \in Procs :
    /\ pc[p] = "dead"
    /\ file.state = "torn"
    /\ pc[q] = "idle"
    /\ err[q] = "JSONDecodeError"
    /\ lock = NoProc

\* ---------------------------------------------------------------------------
\* C29
\* all three agents have written status completed
AllCompleted == \A a \in Agents : StatusOf(Committed, a) = "completed"

\* C29: in the sequential run, once all three agents are completed, every
\* message in product_owner's inbox is unread, the only messages in
\* staff_engineer's inbox are product_owner's client_interrogation, which is
\* read, and engineering_manager's message, which is unread, and
\* staff_engineer's architecture_ready in engineering_manager's inbox is
\* read.
C29_LateMessagesStayUnread ==
  AllCompleted =>
    LET ms == Committed["messages"] IN
    /\ {"technical_questions"} \subseteq DOMAIN ms[PO]
    /\ \E k \in DOMAIN ms[PO] : ms[PO][k]["from"] = EM
    /\ \A k \in DOMAIN ms[PO] : ~ms[PO][k]["read"]
    /\ ms[SE]["client_interrogation"]["from"] = PO
    /\ ms[SE]["client_interrogation"]["read"]
    /\ \E k \in DOMAIN ms[SE] : ms[SE][k]["from"] = EM
    /\ \A k \in DOMAIN ms[SE] \ {"client_interrogation"} :
         ms[SE][k]["from"] = EM /\ ~ms[SE][k]["read"]
    /\ ms[EM]["architecture_ready"]["from"] = SE
    /\ ms[EM]["architecture_ready"]["read"]

\* the full run has ended with all three completed, the file holds the
\* last write, and engineering_manager reported conflicts to both others
C29_Witness ==
  /\ AllCompleted
  /\ \A a \in Agents : apc[a] = "exit0"
  /\ file.state = "full" /\ Load(file.text) = Committed
  /\ "coordination_feedback" \in DOMAIN Committed["messages"][SE]
  /\ ~Committed["messages"][SE]["coordination_feedback"]["read"]
====
